---------------------------- MODULE Spec2Model ----------------------------
(***************************************************************************)
(* Economy engine of the clicker backend (src/api.py, src/DATABASE/base.py). *)
(*                                                                         *)
(* The users table is the function db: user id -> row.  Every handler is   *)
(* translated as a "plan": what the handler decides from the snapshot that *)
(* get_user returned (its status, the update_user calls it will make, its  *)
(* response).  Spec runs each handler as one step (requests one at a       *)
(* time); SpecRace runs the same plans with the get_user and update_user   *)
(* calls of different requests interleaved, as the awaits of the async     *)
(* handlers allow; SpecIncome runs the passive-income collection alone,    *)
(* over more profit levels, bonus descriptors and waiting times.           *)
(*                                                                         *)
(* Energy quantities (energy, max_energy) are kept in units of 1/Q so that *)
(* get_max_energy's 1.5 ** k factor is exact: 1400 * 1.5^4 = 7087.5.       *)
(* Passive-income multipliers are kept in units of 1/Q as well.            *)
(* Time is counted in whole minutes.                                       *)
(***************************************************************************)
EXTENDS Integers, Sequences, FiniteSets, TLC

\* user_tasks is the table of completed one-time tasks, one record
\* [user_id, task_id] per row, in insertion order.
VARIABLES db, now, last, steps, procs, db0,
          click_spam_store, rate_limit_store, clock, accepted, user_tasks

vars == <<db, now, last, steps, procs, db0,
          click_spam_store, rate_limit_store, clock, accepted, user_tasks>>

\* The in-memory state of the two request guards: their timestamp lists,
\* the time.time() clock they read, and the count of requests each guard let
\* through, per key and instant.
guard_vars == <<click_spam_store, rate_limit_store, clock, accepted>>

(* ------------------------------ bounds -------------------------------- *)

\* Requests (and clock advances) per behaviour of Spec.
MaxSteps == 3

\* Known user ids; id 1 is registered in every initial state, id 2 is not.
Users == {1, 2}

\* Concurrent requests in SpecRace.
Procs == {1, 2, 3}

\* Minutes by which the clock may advance in one step.
Delays == {1, 2, 10}

(* ---------------------------- configuration --------------------------- *)

\* Denominator of the fixed-point representation: 1.5 = 3/Q.
Q == 2

MAX_CLICKS_PER_SECOND == 100

MAX_ENERGY_RECOVERY_PER_SECOND == 10

\* The middleware's "max 60 requests per minute per endpoint".
RATE_LIMIT == 60

RATE_WINDOW_SECONDS == 60

\* Resolution of the time.time() clock the guards read: ticks per second.
TicksPerSecond == 2

UPGRADE_PRICES ==
  [ multitap |-> <<100, 200, 600, 900, 1500, 2000, 4000, 7000, 10000, 20000,
                   30000, 40000, 50000, 100000>>,
    profit   |-> <<100, 200, 600, 900, 1500, 2000, 4000, 7000, 10000, 20000,
                   30000, 40000, 50000, 100000>>,
    energy   |-> <<100, 200, 600, 900, 1500, 2000, 4000, 7000, 10000, 20000,
                   30000, 40000, 50000, 100000>> ]

HOUR_VALUES == <<100, 150, 250, 500, 1000, 1250, 1500, 1800, 2000, 2500, 3000>>

ENERGY_VALUES == <<100, 200, 300, 500, 650, 700, 850, 1000, 1150, 1200, 1400>>

BONUS_AMOUNT == 1000

\* timedelta(minutes=2) of activate_mega_boost.
BOOST_MINUTES == 2

\* base_interval = timedelta(minutes=10) of passive_income.
BASE_INTERVAL == 10

\* A row field that holds None.
NoTime == -1

NoReferrer == 0

(* ------------------------------ helpers ------------------------------- *)

RECURSIVE Pow(_, _)
Pow(b, n) == IF n = 0 THEN 1 ELSE b * Pow(b, n - 1)

\* Python's int(a / b) for b > 0: truncation toward zero.
TruncDiv(a, b) == IF a >= 0 THEN a \div b ELSE -((-a) \div b)

Min(a, b) == IF a <= b THEN a ELSE b

Max(a, b) == IF a >= b THEN a ELSE b

LevelField(boost_type) ==
  CASE boost_type = "multitap" -> "multitap_level"
    [] boost_type = "profit"   -> "profit_level"
    [] boost_type = "energy"   -> "energy_level"
    [] OTHER                   -> "luck_level"

get_tap_value(level) == 1 + level

get_hour_value(level) ==
  IF level >= Len(HOUR_VALUES)
  THEN HOUR_VALUES[Len(HOUR_VALUES)] * Pow(2, level - Len(HOUR_VALUES) + 1)
  ELSE HOUR_VALUES[level + 1]

get_max_energy_clamped(level) ==
  IF level >= Len(ENERGY_VALUES)
  THEN ENERGY_VALUES[Len(ENERGY_VALUES)] * Q
  ELSE ENERGY_VALUES[level + 1] * Q

\* In units of 1/Q.  1.5 ** k = 3^k / 2^k; the division is exact for every
\* level the price table allows (k <= 4).
get_max_energy(level) ==
  IF level >= Len(ENERGY_VALUES)
  THEN (ENERGY_VALUES[Len(ENERGY_VALUES)] * Q
          * Pow(3, level - Len(ENERGY_VALUES) + 1))
         \div Pow(2, level - Len(ENERGY_VALUES) + 1)
  ELSE ENERGY_VALUES[level + 1] * Q

calculate_passive_income_per_minute(user, minutes_passed, bonus_multiplier) ==
  LET hour_value == get_hour_value(user.profit_level)
      base_income_per_10min == hour_value \div 6
      cycles == Max(1, minutes_passed)
  IN  TruncDiv(base_income_per_10min * cycles * bonus_multiplier, Q)

\* bonus_multiplier in units of 1/Q; int() truncates toward zero.
calculate_passive_income(user, minutes_passed, bonus_multiplier) ==
  LET hour_value == get_hour_value(user.profit_level)
      base_income_per_10min == hour_value \div 6
      cycles == Max(1, minutes_passed \div 10)
  IN  TruncDiv(base_income_per_10min * cycles * bonus_multiplier, Q)

(* ------------------------------ storage ------------------------------- *)

\* The columns update_user copies from its data dict.
UpdatableFields ==
  {"coins", "energy", "profit_per_hour", "max_energy", "level",
   "multitap_level", "profit_level", "energy_level", "last_passive_income",
   "extra_data"}

\* The keys of the dict get_user returns (referrer_id is not among them).
GetUserFields ==
  {"user_id", "coins", "profit_per_hour", "energy", "max_energy",
   "multitap_level", "profit_level", "energy_level", "last_passive_income",
   "luck_level", "referral_count", "referral_earnings", "extra_data"}

Exists(d, user_id) == user_id \in DOMAIN d

get_user(d, user_id) == [f \in GetUserFields |-> d[user_id][f]]

update_user_every_row(d, user_id, data) ==
  [u \in DOMAIN d |->
     [f \in DOMAIN d[u] |->
        IF f \in DOMAIN data /\ f \in UpdatableFields
        THEN data[f] ELSE d[u][f]]]

\* select(User).where(User.user_id == user_id), then the listed columns.
update_user(d, user_id, data) ==
  IF ~Exists(d, user_id) THEN d
  ELSE [d EXCEPT ![user_id] =
          [f \in DOMAIN d[user_id] |->
             IF f \in DOMAIN data /\ f \in UpdatableFields
             THEN data[f] ELSE d[user_id][f]]]

RECURSIVE ApplyWrites(_, _, _)
ApplyWrites(d, user_id, writes) ==
  IF writes = <<>> THEN d
  ELSE ApplyWrites(update_user(d, user_id, Head(writes)), user_id, Tail(writes))

\* The row add_user inserts; t is datetime.utcnow().
NewUser(user_id, referrer_id, t) ==
  [ user_id             |-> user_id,
    coins               |-> 0,
    profit_per_hour     |-> 100,
    energy              |-> 1000 * Q,
    max_energy          |-> 1000 * Q,
    multitap_level      |-> 0,
    profit_level        |-> 0,
    energy_level        |-> 0,
    luck_level          |-> 0,
    last_passive_income |-> t,
    referrer_id         |-> referrer_id,
    referral_count      |-> 0,
    referral_earnings   |-> 0,
    extra_data          |-> [active_boosts |-> {}] ]

add_referral_bonus_upsert(d, referrer_id) ==
  IF ~Exists(d, referrer_id)
  THEN [u \in DOMAIN d \cup {referrer_id} |->
          IF u = referrer_id
          THEN [NewUser(referrer_id, NoReferrer, 0) EXCEPT
                  !.coins = BONUS_AMOUNT, !.referral_count = 1,
                  !.referral_earnings = BONUS_AMOUNT]
          ELSE d[u]]
  ELSE [d EXCEPT ![referrer_id].coins = @ + BONUS_AMOUNT,
                 ![referrer_id].referral_count = @ + 1,
                 ![referrer_id].referral_earnings = @ + BONUS_AMOUNT]

\* The referrer's row is read and written back in one session; a referrer
\* without a row is logged and skipped.
add_referral_bonus(d, referrer_id) ==
  IF ~Exists(d, referrer_id) THEN d
  ELSE [d EXCEPT ![referrer_id].coins = @ + BONUS_AMOUNT,
                 ![referrer_id].referral_count = @ + 1,
                 ![referrer_id].referral_earnings = @ + BONUS_AMOUNT]

InsertUser(d, user_id, referrer_id, t) ==
  [u \in DOMAIN d \cup {user_id} |->
     IF u = user_id THEN NewUser(user_id, referrer_id, t) ELSE d[u]]

add_user(d, user_id, referrer_id, t) ==
  IF Exists(d, user_id) THEN d
  ELSE LET d1 == InsertUser(d, user_id, referrer_id, t)
       IN  IF referrer_id # NoReferrer
           THEN add_referral_bonus(d1, referrer_id) ELSE d1


(* ------------------------------ handlers ------------------------------ *)
(* A plan is [status, writes, ret]: the HTTP outcome, the data dicts of    *)
(* the update_user calls the handler makes (in order), and the response    *)
(* body.  All of it is decided from the one snapshot get_user returned.    *)

NoRet == [none |-> TRUE]

Reject(status) == [status |-> status, writes |-> <<>>, ret |-> NoRet]

\* The entries of active_boosts under the key "mega_boost".
MegaBoost(active_boosts) == {b \in active_boosts : b.name = "mega_boost"}

ExpiresAt(active_boosts) == (CHOOSE b \in MegaBoost(active_boosts) : TRUE).expires_at

\* The tap sees the entry as live: now <= expires.
ClickBoostLive(active_boosts, t) ==
  MegaBoost(active_boosts) # {} /\ t <= ExpiresAt(active_boosts)

ActivateBoostLiveNever(active_boosts, t) == FALSE

\* The activation sees the entry as live: now < expires.
ActivateBoostLive(active_boosts, t) ==
  MegaBoost(active_boosts) # {} /\ t < ExpiresAt(active_boosts)

\* The status read sees the entry as expired: now > expires.
StatusBoostExpired(active_boosts, t) ==
  MegaBoost(active_boosts) # {} /\ t > ExpiresAt(active_boosts)

SweepWriteKeep(active_boosts) ==
  [extra_data |-> [active_boosts |-> active_boosts]]

\* update_user(user_id, {"extra_data": extra}) after del active_boosts["mega_boost"].
SweepWrite(active_boosts) ==
  [extra_data |-> [active_boosts |-> active_boosts \ MegaBoost(active_boosts)]]

ActualGainPerClick(base_tap, mega_boost_active, clicks) ==
  base_tap * clicks * (IF mega_boost_active THEN 2 ELSE 1)

\* The payout of one resolved tap; clicks is the client-declared count.
ActualGain(base_tap, mega_boost_active, clicks) ==
  base_tap * (IF mega_boost_active THEN 2 ELSE 1)

\* The energy debit of one tap, in units of 1/Q; energy_cost is client-declared.
TapCost(energy_cost) == 1 * Q

InsufficientEnergyBelowZero(user) == user.energy < 0

\* if not mega_boost_active and user["energy"] < 1
InsufficientEnergy(user) == user.energy < 1 * Q

EnergyAfterTapAlwaysDebited(user, mega_boost_active, energy_cost) ==
  user.energy - TapCost(energy_cost)

\* The energy update is skipped while the boost is live.
EnergyAfterTap(user, mega_boost_active, energy_cost) ==
  IF mega_boost_active THEN user.energy
  ELSE user.energy - TapCost(energy_cost)

\* check_click_spam, which runs first, keeps its own in-memory window of one
\* second and touches no row; it lets through every tap of the runs below
\* (fewer than MAX_CLICKS_PER_SECOND taps each).
process_click(d, user_id, t, clicks, energy_cost) ==
  IF ~Exists(d, user_id) THEN Reject("NotFound")
  ELSE
    LET user == get_user(d, user_id)
        active_boosts == user.extra_data.active_boosts
        mega_boost_active == ClickBoostLive(active_boosts, t)
        sweep == IF MegaBoost(active_boosts) # {} /\ ~mega_boost_active
                 THEN <<SweepWrite(active_boosts)>> ELSE <<>>
        base_tap == get_tap_value(user.multitap_level)
        actual_gain == ActualGain(base_tap, mega_boost_active, clicks)
        energy == EnergyAfterTap(user, mega_boost_active, energy_cost)
        coins == user.coins + actual_gain
    IN  IF ~mega_boost_active /\ InsufficientEnergy(user)
        THEN [status |-> "InsufficientEnergy", writes |-> sweep, ret |-> NoRet]
        ELSE [status |-> "ok",
              writes |-> sweep \o <<[coins |-> coins, energy |-> energy]>>,
              ret    |-> [coins |-> coins, energy |-> energy,
                          tap_value |-> base_tap,
                          multiplier |-> IF mega_boost_active THEN 2 ELSE 1,
                          actual_gain |-> actual_gain,
                          mega_boost_active |-> mega_boost_active]]

\* UpgradeRequest.validate_boost_type
validate_boost_type(v) == v \in DOMAIN UPGRADE_PRICES

\* The updates dict of a successful upgrade from current_level.
UpgradeUpdates(user, boost_type, current_level, price) ==
  LET base == [f \in {"coins", LevelField(boost_type)} |->
                 IF f = "coins" THEN user.coins - price ELSE current_level + 1]
  IN  CASE boost_type = "profit" ->
             [f \in DOMAIN base \cup {"profit_per_hour"} |->
                IF f = "profit_per_hour" THEN get_hour_value(current_level + 1)
                ELSE base[f]]
        [] boost_type = "energy" ->
             [f \in DOMAIN base \cup {"max_energy", "energy"} |->
                IF f \in {"max_energy", "energy"}
                THEN get_max_energy(current_level + 1)
                ELSE base[f]]
        [] OTHER -> base

InsufficientFundsNever(user, price) == FALSE

InsufficientFundsOrEqual(user, price) == user.coins <= price

\* if user.get("coins", 0) < price: "Not enough coins"
InsufficientFunds(user, price) == user.coins < price

\* ret carries what the handler keeps for its response after the write.
process_upgrade(d, user_id, boost_type) ==
  IF ~validate_boost_type(boost_type) THEN Reject("InvalidTrack")
  ELSE IF ~Exists(d, user_id) THEN Reject("NotFound")
  ELSE
    LET user == get_user(d, user_id)
        current_level == user[LevelField(boost_type)]
        price == UPGRADE_PRICES[boost_type][current_level + 1]
    IN  IF current_level >= Len(UPGRADE_PRICES[boost_type])
        THEN Reject("MaxLevelReached")
        ELSE IF InsufficientFunds(user, price) THEN Reject("InsufficientFunds")
        ELSE [status |-> "ok",
              writes |-> <<UpgradeUpdates(user, boost_type, current_level, price)>>,
              ret    |-> [boost_type |-> boost_type,
                          current_level |-> current_level]]

\* next_cost of the response: the price after the level just bought, 0 at the cap.
NextCostOffByOne(boost_type, current_level) ==
  IF current_level + 1 < Len(UPGRADE_PRICES[boost_type])
  THEN UPGRADE_PRICES[boost_type][current_level + 1]
  ELSE 0

NextCost(boost_type, current_level) ==
  IF current_level + 1 < Len(UPGRADE_PRICES[boost_type])
  THEN UPGRADE_PRICES[boost_type][current_level + 2]
  ELSE 0

\* "Get fresh user data" and the response built from it.
upgrade_response(d, user_id, boost_type, current_level) ==
  LET updated_user == get_user(d, user_id)
  IN  [coins          |-> updated_user.coins,
       new_level      |-> updated_user[LevelField(boost_type)],
       next_cost      |-> NextCost(boost_type, current_level),
       profit_per_tap |-> get_tap_value(updated_user.multitap_level),
       profit_per_hour |-> get_hour_value(updated_user.profit_level),
       max_energy     |-> updated_user.max_energy]

\* new_energy = min(max_energy, energy + MAX_ENERGY_RECOVERY_PER_SECOND)
RecoveredEnergyPlusOne(user) ==
  Min(user.max_energy, user.energy + 1 * Q)

RecoveredEnergyUncapped(user) ==
  user.energy + MAX_ENERGY_RECOVERY_PER_SECOND * Q

RecoveredEnergy(user) ==
  Min(user.max_energy, user.energy + MAX_ENERGY_RECOVERY_PER_SECOND * Q)

recover_energy(d, user_id) ==
  IF ~Exists(d, user_id) THEN Reject("NotFound")
  ELSE
    LET user == get_user(d, user_id)
        new_energy == RecoveredEnergy(user)
    IN  IF user.energy >= user.max_energy
        THEN [status |-> "ok", writes |-> <<>>, ret |-> [energy |-> user.energy]]
        ELSE [status |-> "ok", writes |-> <<[energy |-> new_energy]>>,
              ret |-> [energy |-> new_energy]]

BoostExpiryOneMinute(t) == t + 1

\* expires_at = datetime.utcnow() + timedelta(minutes=2)
BoostExpiry(t) == t + BOOST_MINUTES

activate_mega_boost(d, user_id, t) ==
  IF ~Exists(d, user_id) THEN Reject("NotFound")
  ELSE
    LET user == get_user(d, user_id)
        active_boosts == user.extra_data.active_boosts
        expires_at == BoostExpiry(t)
        entry == [name |-> "mega_boost", active |-> TRUE, expires_at |-> expires_at]
    IN  IF ActivateBoostLive(active_boosts, t)
        THEN [status |-> "ok", writes |-> <<>>,
              ret |-> [success |-> FALSE, already_active |-> TRUE,
                       expires_at |-> ExpiresAt(active_boosts)]]
        ELSE [status |-> "ok",
              writes |-> <<[extra_data |-> [active_boosts |->
                              (active_boosts \ MegaBoost(active_boosts)) \cup {entry}]]>>,
              ret |-> [success |-> TRUE, already_active |-> FALSE,
                       expires_at |-> expires_at]]

get_mega_boost_status(d, user_id, t) ==
  IF ~Exists(d, user_id) THEN Reject("NotFound")
  ELSE
    LET user == get_user(d, user_id)
        active_boosts == user.extra_data.active_boosts
    IN  IF MegaBoost(active_boosts) = {}
        THEN [status |-> "ok", writes |-> <<>>, ret |-> [active |-> FALSE]]
        ELSE IF StatusBoostExpired(active_boosts, t)
        THEN [status |-> "ok", writes |-> <<SweepWrite(active_boosts)>>,
              ret |-> [active |-> FALSE]]
        ELSE [status |-> "ok", writes |-> <<>>,
              ret |-> [active |-> TRUE,
                       expires_at |-> ExpiresAt(active_boosts),
                       remaining_seconds |-> (ExpiresAt(active_boosts) - t) * 60]]

\* skin_bonus: type "none" is an absent (or empty) descriptor.  multiplier is
\* in units of 1/Q, interval in minutes; for the types "multiplier" and
\* "interval" the field "value" carries the one number.
BonusMultiplier(skin_bonus) ==
  CASE skin_bonus.type = "multiplier" -> skin_bonus.value
    [] skin_bonus.type = "both"       -> skin_bonus.multiplier
    [] OTHER                          -> 1 * Q

BonusInterval(skin_bonus) ==
  CASE skin_bonus.type = "interval" -> skin_bonus.value
    [] skin_bonus.type = "both"     -> skin_bonus.interval
    [] OTHER                        -> BASE_INTERVAL

IncomeGateOpen(last_income, t, interval) == TRUE

\* not last_income or (now - last_income) >= interval
IncomeGate(last_income, t, interval) ==
  last_income = NoTime \/ (t - last_income) >= interval

IncomePayableAlways(total_income) == TRUE

\* if total_income > 0
IncomePayable(total_income) == total_income > 0

passive_income(d, user_id, t, skin_bonus) ==
  IF ~Exists(d, user_id) THEN Reject("NotFound")
  ELSE
    LET user == get_user(d, user_id)
        last_income == user.last_passive_income
        multiplier == BonusMultiplier(skin_bonus)
        interval == BonusInterval(skin_bonus)
        minutes_passed == IF last_income # NoTime THEN t - last_income ELSE 0
        total_income ==
          calculate_passive_income(
            user, IF last_income # NoTime THEN minutes_passed ELSE 10, multiplier)
    IN  IF IncomeGate(last_income, t, interval) /\ IncomePayable(total_income)
        THEN [status |-> "ok",
              writes |-> <<[coins |-> user.coins + total_income,
                            last_passive_income |-> t]>>,
              ret |-> [coins |-> user.coins + total_income,
                       income |-> total_income]]
        ELSE [status |-> "ok", writes |-> <<>>,
              ret |-> [coins |-> user.coins, income |-> 0]]

register_user_upsert(d, user_id, referrer_id, t) ==
  IF Exists(d, user_id)
  THEN [status |-> "exists",
        db |-> [d EXCEPT ![user_id].referrer_id = referrer_id]]
  ELSE [status |-> IF referrer_id # NoReferrer
                   THEN "created_with_referral" ELSE "created",
        db     |-> add_user(d, user_id, referrer_id, t)]

\* register_user: the row set after the call and the reported status.
register_user(d, user_id, referrer_id, t) ==
  IF Exists(d, user_id)
  THEN [status |-> "exists", db |-> d]
  ELSE [status |-> IF referrer_id # NoReferrer
                   THEN "created_with_referral" ELSE "created",
        db     |-> add_user(d, user_id, referrer_id, t)]

\* GET /api/user/{user_id}
get_user_data(d, user_id) ==
  IF ~Exists(d, user_id) THEN Reject("NotFound")
  ELSE
    LET user == get_user(d, user_id)
    IN  [status |-> "ok", writes |-> <<>>,
         ret |-> [coins |-> user.coins, energy |-> user.energy,
                  max_energy |-> user.max_energy,
                  profit_per_tap |-> get_tap_value(user.multitap_level),
                  profit_per_hour |-> get_hour_value(user.profit_level),
                  multitap_level |-> user.multitap_level,
                  profit_level |-> user.profit_level,
                  energy_level |-> user.energy_level]]

get_referral_data_default(d, user_id) ==
  IF ~Exists(d, user_id)
  THEN [status |-> "ok", writes |-> <<>>, ret |-> [count |-> 0, earnings |-> 0]]
  ELSE
    LET user == get_user(d, user_id)
    IN  [status |-> "ok", writes |-> <<>>,
         ret |-> [count |-> user.referral_count,
                  earnings |-> user.referral_earnings]]

\* GET /api/referral-data/{user_id}
get_referral_data(d, user_id) ==
  IF ~Exists(d, user_id) THEN Reject("NotFound")
  ELSE
    LET user == get_user(d, user_id)
    IN  [status |-> "ok", writes |-> <<>>,
         ret |-> [count |-> user.referral_count,
                  earnings |-> user.referral_earnings]]

\* dict.get(key): None (here default) for a key the dict does not hold.
DictGet(dict, key, default) ==
  IF key \in DOMAIN dict THEN dict[key] ELSE default

\* GET /api/check-referral/{user_id}
check_referral(d, user_id) ==
  IF ~Exists(d, user_id)
  THEN [status |-> "ok", writes |-> <<>>, ret |-> [has_referrer |-> FALSE]]
  ELSE
    LET user == get_user(d, user_id)
    IN  [status |-> "ok", writes |-> <<>>,
         ret |-> [has_referrer |->
                    DictGet(user, "referrer_id", NoReferrer) # NoReferrer,
                  referrer_id |-> DictGet(user, "referrer_id", NoReferrer)]]

(* --------------------------- inputs and seeds ------------------------- *)

\* Client-declared fields of ClickRequest (clicks 1..100, energy_cost 1..10).
ClickRequests ==
  { [clicks |-> 1, energy_cost |-> 1],
    [clicks |-> 100, energy_cost |-> 1],
    [clicks |-> 1, energy_cost |-> 10] }

\* boost_type strings a client may send.
TrackNames == {"multitap", "profit", "energy", "luck", "boost"}

NoBonus == [type |-> "none", value |-> 0, multiplier |-> 0, interval |-> 0]

\* skin_bonus descriptors: none, x(-1), and both (x1.5, every 2 minutes).
Bonuses ==
  { NoBonus,
    [type |-> "multiplier", value |-> -2, multiplier |-> 0, interval |-> 0],
    [type |-> "both", value |-> 0, multiplier |-> 3, interval |-> 2] }

\* <<multitap_level, profit_level, energy_level>> of the seeded rows.
SeedLevels == {<<0, 0, 0>>, <<13, 10, 10>>, <<14, 13, 13>>, <<2, 14, 14>>}

\* <<coins, energy below max_energy (TRUE) or above zero (FALSE), points>>.
SeedBalances == {<<99, FALSE, 1>>, <<100, TRUE, 0>>, <<100000, TRUE, 3>>}

SeedEnergy(max_energy, b) ==
  IF b[2] THEN max_energy - b[3] * Q ELSE b[3] * Q

\* max_energy of a row at energy_level lv: the column default until the first
\* energy upgrade, get_max_energy(lv) after it.
MaxEnergyAt(lv) == IF lv = 0 THEN 1000 * Q ELSE get_max_energy(lv)

\* A row user 1 can have after registration at time 0, reward videos, taps,
\* energy recovery and upgrades run one at a time.
SeedRow(coins, lv, energy) ==
  [NewUser(1, NoReferrer, 0) EXCEPT
     !.coins = coins,
     !.multitap_level = lv[1],
     !.profit_level = lv[2],
     !.profit_per_hour = get_hour_value(lv[2]),
     !.energy_level = lv[3],
     !.max_energy = MaxEnergyAt(lv[3]),
     !.energy = energy]

SeedRows ==
  { SeedRow(b[1], lv, SeedEnergy(MaxEnergyAt(lv[3]), b)) :
      b \in SeedBalances, lv \in SeedLevels }

NoCall ==
  [op |-> "none", uid |-> 0, arg |-> NoRet, status |-> "none", at |-> 0,
   ret |-> NoRet]

IdleProc == [pc |-> "idle", op |-> "none", uid |-> 0, arg |-> NoRet,
             status |-> "none", writes |-> <<>>, ret |-> NoRet]

\* No request has passed either guard.
GuardInit ==
  /\ click_spam_store = [key \in {} |-> <<>>]
  /\ rate_limit_store = [key \in {} |-> <<>>]
  /\ clock = 0
  /\ accepted = [key \in {} |-> 0]

(* ---------------------- requests one at a time ------------------------ *)

Init ==
  /\ \E row \in SeedRows : db = (1 :> row)
  /\ now = 0
  /\ last = [NoCall EXCEPT !.ret = NoRet] @@ [pre |-> db]
  /\ steps = 0
  /\ procs = [p \in Procs |-> IdleProc]
  /\ db0 = db
  /\ GuardInit
  /\ user_tasks = <<>>

\* The whole handler: its writes applied, its outcome recorded in last.
Serve(op, uid, arg, plan, ret, d2) ==
  /\ steps < MaxSteps
  /\ db' = d2
  /\ last' = [op |-> op, uid |-> uid, arg |-> arg, status |-> plan.status,
              at |-> now, ret |-> ret, pre |-> db]
  /\ steps' = steps + 1
  /\ UNCHANGED <<now, procs, db0>>
  /\ UNCHANGED <<guard_vars, user_tasks>>

ServePlan(op, uid, arg, plan) ==
  Serve(op, uid, arg, plan, plan.ret, ApplyWrites(db, uid, plan.writes))

Tap(u, clicks, energy_cost) ==
  ServePlan("click", u, [clicks |-> clicks, energy_cost |-> energy_cost],
            process_click(db, u, now, clicks, energy_cost))

Upgrade(u, boost_type) ==
  LET plan == process_upgrade(db, u, boost_type)
      d2 == ApplyWrites(db, u, plan.writes)
  IN  Serve("upgrade", u, boost_type, plan,
            IF plan.status = "ok"
            THEN upgrade_response(d2, u, boost_type, plan.ret.current_level)
            ELSE plan.ret,
            d2)

\* The values an energy upgrade writes past the end of ENERGY_VALUES are
\* floats (1.5 ** k).  A storage engine that refuses a float for an integer
\* column fails the commit: the handler's except branch answers 500 and
\* nothing is stored.  An engine that takes the value stores it (Upgrade).
UpgradeStorageError(u, boost_type) ==
  LET plan == process_upgrade(db, u, boost_type)
  IN  /\ plan.status = "ok"
      /\ boost_type = "energy"
      /\ plan.ret.current_level + 1 >= Len(ENERGY_VALUES)
      /\ Serve("upgrade", u, boost_type, Reject("InternalError"), NoRet, db)

RecoverEnergy(u) == ServePlan("recover", u, NoRet, recover_energy(db, u))

CollectPassiveIncome(u, skin_bonus) ==
  ServePlan("passive", u, skin_bonus, passive_income(db, u, now, skin_bonus))

ActivateBoost(u) == ServePlan("activate", u, NoRet, activate_mega_boost(db, u, now))

GetBoostStatus(u) == ServePlan("status", u, NoRet, get_mega_boost_status(db, u, now))

Register(u, referrer_id) ==
  LET r == register_user(db, u, referrer_id, now)
  IN  Serve("register", u, referrer_id, r, NoRet, r.db)

\* Wall-clock time passes between requests.
Tick(d) ==
  /\ steps < MaxSteps
  /\ now' = now + d
  /\ steps' = steps + 1
  /\ UNCHANGED <<db, last, procs, db0>>
  /\ UNCHANGED <<guard_vars, user_tasks>>

Next ==
  \/ \E u \in Users, c \in ClickRequests : Tap(u, c.clicks, c.energy_cost)
  \/ \E u \in Users, boost_type \in TrackNames : Upgrade(u, boost_type)
  \/ \E u \in Users, boost_type \in TrackNames : UpgradeStorageError(u, boost_type)
  \/ \E u \in Users : RecoverEnergy(u)
  \/ \E u \in Users, skin_bonus \in Bonuses : CollectPassiveIncome(u, skin_bonus)
  \/ \E u \in Users : ActivateBoost(u)
  \/ \E u \in Users : GetBoostStatus(u)
  \/ \E u \in Users, referrer_id \in {NoReferrer} \cup Users : Register(u, referrer_id)
  \/ \E d \in Delays : Tick(d)

Spec == Init /\ [][Next]_vars

(* ------------------------ overlapping requests ------------------------ *)
(* Every await of a handler is a point where another request may run.  A   *)
(* request reads its snapshot (get_user) when it is called, then makes its *)
(* update_user calls one by one; an upgrade reads the row again for its    *)
(* response.                                                               *)

\* The row of user 1 when the overlapping requests arrive.
RaceSeedRows ==
  { SeedRow(100000, <<0, 0, 0>>, 1000 * Q - 3 * Q),
    SeedRow(100000, <<1, 0, 1>>, 2 * Q) }

\* The upgrade tracks the validator lets through.
ValidTracks == DOMAIN UPGRADE_PRICES

InitRace ==
  /\ \E row \in RaceSeedRows : db = (1 :> row)
  /\ now = 0
  /\ last = NoCall @@ [pre |-> db]
  /\ steps = 0
  /\ procs = [p \in Procs |-> IdleProc]
  /\ db0 = db
  /\ GuardInit
  /\ user_tasks = <<>>

\* The handler runs up to its first update_user call.
Call(p, op, uid, arg, plan) ==
  /\ procs[p].pc = "idle"
  /\ procs' = [procs EXCEPT ![p] =
       [pc |-> IF plan.writes = <<>> THEN "done" ELSE "write",
        op |-> op, uid |-> uid, arg |-> arg, status |-> plan.status,
        writes |-> plan.writes, ret |-> plan.ret]]
  /\ UNCHANGED <<db, now, last, steps, db0>>
  /\ UNCHANGED <<guard_vars, user_tasks>>

CallTap(p, u, c) ==
  Call(p, "click", u, c, process_click(db, u, now, c.clicks, c.energy_cost))

CallUpgrade(p, u, boost_type) ==
  Call(p, "upgrade", u, boost_type, process_upgrade(db, u, boost_type))

CallRecover(p, u) == Call(p, "recover", u, NoRet, recover_energy(db, u))

\* One update_user call commits.
Write(p) ==
  /\ procs[p].pc = "write"
  /\ db' = update_user(db, procs[p].uid, Head(procs[p].writes))
  /\ procs' = [procs EXCEPT
       ![p].writes = Tail(@),
       ![p].pc = IF Tail(procs[p].writes) # <<>> THEN "write"
                 ELSE IF procs[p].op = "upgrade" THEN "reread" ELSE "done"]
  /\ UNCHANGED <<now, last, steps, db0>>
  /\ UNCHANGED <<guard_vars, user_tasks>>

\* updated_user = await get_user(...) of process_upgrade, and its response.
Reread(p) ==
  /\ procs[p].pc = "reread"
  /\ procs' = [procs EXCEPT
       ![p].pc = "done",
       ![p].ret = upgrade_response(db, procs[p].uid, procs[p].arg,
                                   procs[p].ret.current_level)]
  /\ UNCHANGED <<db, now, last, steps, db0>>
  /\ UNCHANGED <<guard_vars, user_tasks>>

NextRace ==
  \/ \E p \in Procs : CallTap(p, 1, [clicks |-> 1, energy_cost |-> 1])
  \/ \E p \in Procs, boost_type \in ValidTracks : CallUpgrade(p, 1, boost_type)
  \/ \E p \in Procs : CallRecover(p, 1)
  \/ \E p \in Procs : Write(p)
  \/ \E p \in Procs : Reread(p)

SpecRace == InitRace /\ [][NextRace]_vars

(* ------------------------------- claims ------------------------------- *)

LevelFields == {"multitap_level", "profit_level", "energy_level", "luck_level"}

\* The last request was an upgrade that ended with this status.
LastUpgradeOf(status) ==
  /\ last.op = "upgrade"
  /\ last.status = status

\* The mega_boost entry of a row is live at time t, as the tap reads it.
LiveAt(row, t) ==
  \E b \in row.extra_data.active_boosts : b.name = "mega_boost" /\ t <= b.expires_at

\* C1: with requests run one at a time, after every step every stored row
\* has 0 <= energy <= max_energy and coins >= 0.
C1_EnergyAndCoinsInRange ==
  \A u \in DOMAIN db :
    /\ 0 <= db[u].energy
    /\ db[u].energy <= db[u].max_energy
    /\ db[u].coins >= 0

\* C1 witness: an energy upgrade lowered max_energy below the energy the row
\* held (the 1000-point default row), and a later recovery ran at the new cap.
C1_Witness ==
  /\ last.op = "recover" /\ last.status = "ok" /\ last.uid \in DOMAIN db
  /\ db[last.uid].energy_level = 1
  /\ db[last.uid].energy = db[last.uid].max_energy
  /\ last.pre[last.uid].energy < db[last.uid].max_energy

\* C2: two overlapping taps of one user (no boost, energy >= 2) end with
\* coins = initial + 2 * (1 + multitap_level) and energy = initial - 2.
C2_TwoTapsBothCount ==
  \A p, q \in Procs :
    ( /\ p # q
      /\ procs[p].pc = "done" /\ procs[p].op = "click" /\ procs[p].status = "ok"
      /\ procs[q].pc = "done" /\ procs[q].op = "click" /\ procs[q].status = "ok"
      /\ \A r \in Procs \ {p, q} : procs[r].pc = "idle"
      /\ db0[1].energy >= 2 * Q )
    => /\ db[1].coins = db0[1].coins + 2 * (1 + db0[1].multitap_level)
       /\ db[1].energy = db0[1].energy - 2 * Q

\* C3: an upgrade racing a tap, both successful, ends with
\* coins = initial - price + tap gain and the level raised by one.
C3_UpgradeRacingTapKeepsDebit ==
  \A p, q \in Procs :
    ( /\ procs[p].pc = "done" /\ procs[p].op = "upgrade" /\ procs[p].status = "ok"
      /\ procs[q].pc = "done" /\ procs[q].op = "click" /\ procs[q].status = "ok"
      /\ \A r \in Procs \ {p, q} : procs[r].pc = "idle" )
    => LET f == LevelField(procs[p].arg)
           price == UPGRADE_PRICES[procs[p].arg][db0[1][f] + 1]
       IN  /\ db[1][f] = db0[1][f] + 1
           /\ db[1].coins = db0[1].coins - price + procs[q].ret.actual_gain

\* C4: energy <= max_energy in every stored state under every interleaving
\* of overlapping Tap, RecoverEnergy and Upgrade requests.
C4_EnergyAtMostMaxInRaces ==
  \A u \in DOMAIN db : db[u].energy <= db[u].max_energy

\* C5: no step of any execution stores a level lower than the level stored
\* before it.
C5_LevelsNeverDecrease ==
  [][\A u \in DOMAIN db : \A f \in LevelFields : db'[u][f] >= db[u][f]]_vars

\* C6: a successful upgrade at level L debits UPGRADE_PRICES[track][L], raises
\* that level by one, leaves the other levels alone and returns as next_cost
\* the price at L+1, or 0 when L+1 is the table length.
C6_UpgradeDebitsPriceAndRaisesLevel ==
  LastUpgradeOf("ok") =>
    LET u == last.uid
        track == last.arg
        pre == last.pre[u]
        L == pre[LevelField(track)]
        table == UPGRADE_PRICES[track]
    IN  /\ db[u].coins = pre.coins - table[L + 1]
        /\ db[u][LevelField(track)] = L + 1
        /\ \A f \in LevelFields \ {LevelField(track)} : db[u][f] = pre[f]
        /\ last.ret.new_level = L + 1
        /\ last.ret.coins = pre.coins - table[L + 1]
        /\ last.ret.next_cost = IF L + 1 = Len(table) THEN 0 ELSE table[L + 2]

\* C6 witness: an upgrade bought the last level of a track (next_cost 0) with
\* exactly the price in coins.
C6_Witness ==
  /\ LastUpgradeOf("ok")
  /\ last.pre[last.uid][LevelField(last.arg)] = 13
  /\ last.pre[last.uid].coins = 100000
  /\ db[last.uid].coins = 0
  /\ last.ret.next_cost = 0

\* C7: an upgrade is rejected MaxLevelReached exactly when the level equals
\* the table length, InsufficientFunds exactly when (below the cap) coins <
\* price, NotFound for an unknown user; a rejected upgrade changes no row.
C7_UpgradeRejections ==
  (last.op = "upgrade" /\ last.arg \in DOMAIN UPGRADE_PRICES) =>
    LET u == last.uid
        track == last.arg
        table == UPGRADE_PRICES[track]
        known == u \in DOMAIN last.pre
        L == last.pre[u][LevelField(track)]
        atCap == known /\ L = Len(table)
        poor == known /\ L < Len(table) /\ last.pre[u].coins < table[L + 1]
    IN  /\ (last.status = "NotFound") <=> ~known
        /\ (last.status = "MaxLevelReached") <=> atCap
        /\ (last.status = "InsufficientFunds") <=> poor
        /\ last.status \in {"NotFound", "MaxLevelReached", "InsufficientFunds"}
             => db = last.pre

\* C7 witness: an upgrade was refused for funds one coin short of the price.
C7_Witness ==
  /\ LastUpgradeOf("InsufficientFunds")
  /\ last.pre[last.uid].coins = 99
  /\ last.pre[last.uid][LevelField(last.arg)] = 0
  /\ db = last.pre

\* C8: upgrade accepts multitap, profit, energy and luck as tracks and
\* rejects every other name as InvalidTrack.
C8_FourTracksAccepted ==
  last.op = "upgrade" =>
    ((last.status = "InvalidTrack")
       <=> last.arg \notin {"multitap", "profit", "energy", "luck"})

\* C9: a successful energy upgrade to level L' stores max_energy =
\* ENERGY_VALUES[L'] (past the table: the last value times 1.5 per extra
\* level) and energy = that max_energy, whatever the energy was.
C9_EnergyUpgradeRefillsToNewMax ==
  (LastUpgradeOf("ok") /\ last.arg = "energy") =>
    LET u == last.uid
        newLevel == last.pre[u].energy_level + 1
        n == Len(ENERGY_VALUES)
        extra == newLevel - (n - 1)
    IN  /\ db[u].energy_level = newLevel
        /\ IF newLevel < n
           THEN db[u].max_energy = ENERGY_VALUES[newLevel + 1] * Q
           ELSE db[u].max_energy * Pow(2, extra) = ENERGY_VALUES[n] * Q * Pow(3, extra)
        /\ db[u].energy = db[u].max_energy
        /\ last.ret.max_energy = db[u].max_energy

\* C9 witness: an energy upgrade past the end of ENERGY_VALUES refilled a row
\* whose energy was not at the new maximum.
C9_Witness ==
  /\ LastUpgradeOf("ok") /\ last.arg = "energy"
  /\ db[last.uid].energy_level = 14
  /\ last.pre[last.uid].energy < last.pre[last.uid].max_energy
  /\ db[last.uid].energy = db[last.uid].max_energy

\* C10: a successful tap with no live boost debits 1 energy and credits
\* 1 + multitap_level coins whatever clicks and energy_cost the client
\* declares; nothing else of the row changes but the swept boost entry.
C10_TapIgnoresDeclaredFields ==
  ( /\ last.op = "click" /\ last.status = "ok"
    /\ ~LiveAt(last.pre[last.uid], last.at) )
  => LET pre == last.pre[last.uid]
     IN  /\ db[last.uid] =
               [pre EXCEPT !.coins = @ + 1 + pre.multitap_level,
                           !.energy = @ - 1 * Q,
                           !.extra_data = [active_boosts |->
                              {b \in pre.extra_data.active_boosts :
                                 b.name # "mega_boost"}]]
         /\ \A u \in DOMAIN db \ {last.uid} : db[u] = last.pre[u]

\* C10 witness: after one multitap upgrade a tap declaring 100 clicks gained 2.
C10_Witness ==
  /\ last.op = "click" /\ last.status = "ok"
  /\ last.arg.clicks = 100
  /\ ~LiveAt(last.pre[last.uid], last.at)
  /\ last.pre[last.uid].multitap_level = 1
  /\ db[last.uid].coins = last.pre[last.uid].coins + 2
  /\ db[last.uid].energy = last.pre[last.uid].energy - 1 * Q

\* The last request was a tap by a user whose row existed.
LastTap == last.op = "click" /\ last.uid \in DOMAIN last.pre

\* C11: a tap with no live boost and energy below 1 is rejected with
\* InsufficientEnergy and leaves coins, energy and every level field as they
\* were; no tap, accepted or not, changes a level field.
C11_EmptyTapRejectedLevelsKept ==
  LastTap =>
    LET pre == last.pre[last.uid]
        post == db[last.uid]
    IN  /\ (~LiveAt(pre, last.at) /\ pre.energy < 1 * Q) =>
             /\ last.status = "InsufficientEnergy"
             /\ post.coins = pre.coins
             /\ post.energy = pre.energy
        /\ \A f \in LevelFields : post[f] = pre[f]

\* A tap at energy 0 without boost was refused and the balance stayed.
C11_Witness ==
  /\ LastTap
  /\ last.status = "InsufficientEnergy"
  /\ last.pre[last.uid].energy = 0
  /\ ~LiveAt(last.pre[last.uid], last.at)
  /\ last.pre[last.uid].multitap_level = 13
  /\ db[last.uid].coins = last.pre[last.uid].coins
  /\ db[last.uid].energy = 0

\* The critical multipliers a tap can resolve to.
CritMultipliers == {1, 2, 3, 5}

\* C12: a tap while the mega boost is live succeeds whatever the energy,
\* leaves energy as it was and credits 2 * (1 + multitap_level) times a
\* critical multiplier.
C12_BoostedTapFreeAndDoubled ==
  (LastTap /\ LiveAt(last.pre[last.uid], last.at)) =>
    LET pre == last.pre[last.uid]
        post == db[last.uid]
    IN  /\ last.status = "ok"
        /\ last.ret.mega_boost_active
        /\ post.energy = pre.energy
        /\ \E c \in CritMultipliers :
             post.coins = pre.coins + 2 * (1 + pre.multitap_level) * c

\* A boosted tap at energy 0 paid 2 * (1 + 13) and energy stayed 0.
C12_Witness ==
  /\ LastTap
  /\ LiveAt(last.pre[last.uid], last.at)
  /\ last.pre[last.uid].energy = 0
  /\ last.pre[last.uid].multitap_level = 13
  /\ last.status = "ok"
  /\ db[last.uid].energy = 0
  /\ db[last.uid].coins = last.pre[last.uid].coins + 28

\* The last request was a boost activation by a user whose row existed.
LastActivate == last.op = "activate" /\ last.uid \in DOMAIN last.pre

\* The mega_boost entries of a row (none or one).
BoostSlot(row) == {b \in row.extra_data.active_boosts : b.name = "mega_boost"}

\* The boost slot holds an entry whose expires_at lies before time t.
ExpiredAt(row, t) == \E b \in BoostSlot(row) : t > b.expires_at

\* C14: an activation while the entry is live (now before its expires_at) is
\* refused as already active, reports the stored expires_at and leaves the
\* entry, and the rest of the table, as they were.
C14_ActivateWhileLiveRejected ==
  LastActivate =>
    \A b \in BoostSlot(last.pre[last.uid]) :
      last.at < b.expires_at =>
        /\ last.ret.success = FALSE
        /\ last.ret.already_active = TRUE
        /\ last.ret.expires_at = b.expires_at
        /\ db = last.pre

\* An activation one minute into the window was refused and left the entry.
C14_Witness ==
  /\ LastActivate
  /\ last.ret.success = FALSE
  /\ \E b \in BoostSlot(db[last.uid]) :
       /\ b.expires_at = last.at + 1
       /\ last.ret.expires_at = b.expires_at
  /\ db = last.pre

\* C15: the three readers of the slot agree at every instant: whenever a tap
\* at that instant would treat the entry as live, an activation at that
\* instant is refused and does not overwrite the entry, also at
\* t = expires_at.
C15_ReadersAgreeOnLiveness ==
  (LastActivate /\ LiveAt(last.pre[last.uid], last.at)) =>
    /\ last.ret.success = FALSE
    /\ db[last.uid].extra_data = last.pre[last.uid].extra_data

\* C16: an activation from Idle (no entry, or one whose expires_at has
\* passed) at t0 stores {active: true, expires_at: t0 + 2 minutes}; a tap at
\* t0 <= t < t0 + 2 is boosted and a tap at t > t0 + 2 is not.
C16_ActivationOpensTwoMinuteWindow ==
  /\ (LastActivate /\ (BoostSlot(last.pre[last.uid]) = {}
                        \/ ExpiredAt(last.pre[last.uid], last.at))) =>
       /\ last.ret.success = TRUE
       /\ last.ret.expires_at = last.at + 2
       /\ db[last.uid].extra_data.active_boosts =
            {[name |-> "mega_boost", active |-> TRUE, expires_at |-> last.at + 2]}
  /\ LastTap =>
       \A b \in BoostSlot(last.pre[last.uid]) :
         /\ (b.expires_at - 2 <= last.at /\ last.at < b.expires_at) =>
              /\ last.status = "ok"
              /\ last.ret.mega_boost_active = TRUE
              /\ last.ret.multiplier = 2
         /\ (last.at > b.expires_at /\ last.status = "ok") =>
              /\ last.ret.mega_boost_active = FALSE
              /\ last.ret.multiplier = 1

\* A tap one minute after the activation was boosted.
C16_Witness ==
  /\ LastTap
  /\ \E b \in BoostSlot(last.pre[last.uid]) :
       /\ b.active = TRUE
       /\ b.expires_at = last.at + 1
  /\ last.at = 1
  /\ last.ret.mega_boost_active = TRUE
  /\ db[last.uid].coins =
       last.pre[last.uid].coins + 2 * (1 + last.pre[last.uid].multitap_level)

\* C17: a tap or a status read after expires_at removes the entry before it
\* does anything else (the status read answers inactive, the tap is not
\* boosted and pays its energy), and nothing but such an access or an
\* accepted activation changes the boost slot of any row.
C17_ExpiryIsLazyOnAccess ==
  /\ (last.op \in {"click", "status"} /\ last.uid \in DOMAIN last.pre
        /\ ExpiredAt(last.pre[last.uid], last.at)) =>
       /\ BoostSlot(db[last.uid]) = {}
       /\ last.op = "status" => last.ret = [active |-> FALSE]
       /\ last.op = "click" =>
            /\ last.status = "ok" <=> last.pre[last.uid].energy >= 1 * Q
            /\ last.status = "ok" =>
                 /\ last.ret.mega_boost_active = FALSE
                 /\ db[last.uid].energy = last.pre[last.uid].energy - 1 * Q
                 /\ db[last.uid].coins = last.pre[last.uid].coins
                                           + 1 + last.pre[last.uid].multitap_level
  /\ \A u \in DOMAIN last.pre :
       db[u].extra_data # last.pre[u].extra_data =>
         /\ u = last.uid
         /\ \/ last.op = "activate" /\ last.ret.success = TRUE
            \/ last.op \in {"click", "status"} /\ ExpiredAt(last.pre[u], last.at)

\* A tap ten minutes after the activation dropped the entry, paid the plain
\* amount and cost one energy.
C17_Witness ==
  /\ LastTap
  /\ ExpiredAt(last.pre[last.uid], last.at)
  /\ BoostSlot(db[last.uid]) = {}
  /\ last.status = "ok"
  /\ last.ret.mega_boost_active = FALSE
  /\ db[last.uid].energy = last.pre[last.uid].energy - 1 * Q

(* --------------------------- passive income --------------------------- *)
(* The collection handler alone, against rows of several profit levels and *)
(* a wider choice of bonus descriptors and waiting times.                  *)

\* profit_level of the seeded rows: hourly 100, 150, 3000, 6000, 48000.
IncomeSeedLevels == {0, 1, 10, 11, 14}

\* Rows registered at time 0 whose profit track was upgraded since.
IncomeSeedRows ==
  { SeedRow(0, <<0, profit_level, 0>>, 1000 * Q) :
      profit_level \in IncomeSeedLevels }

\* Minutes between two collection requests.
IncomeDelays == {1, 9, 10}

\* skin_bonus descriptors: none; x1.5, x0 and x(-1.5); every 5, 0 and -1
\* minutes; both (x2.5, every 20 minutes) and (x(-0.5), every 0 minutes); a
\* type the handler does not know.
IncomeBonuses ==
  { NoBonus,
    [type |-> "multiplier", value |-> 3, multiplier |-> 0, interval |-> 0],
    [type |-> "multiplier", value |-> 0, multiplier |-> 0, interval |-> 0],
    [type |-> "multiplier", value |-> -3, multiplier |-> 0, interval |-> 0],
    [type |-> "interval", value |-> 5, multiplier |-> 0, interval |-> 0],
    [type |-> "interval", value |-> 0, multiplier |-> 0, interval |-> 0],
    [type |-> "interval", value |-> -1, multiplier |-> 0, interval |-> 0],
    [type |-> "both", value |-> 0, multiplier |-> 5, interval |-> 20],
    [type |-> "both", value |-> 0, multiplier |-> -1, interval |-> 0],
    [type |-> "skin", value |-> -3, multiplier |-> -3, interval |-> 0] }

InitIncome ==
  /\ \E row \in IncomeSeedRows : db = (1 :> row)
  /\ now = 0
  /\ last = NoCall @@ [pre |-> db]
  /\ steps = 0
  /\ procs = [p \in Procs |-> IdleProc]
  /\ db0 = db
  /\ GuardInit
  /\ user_tasks = <<>>

NextIncome ==
  \/ \E u \in Users, skin_bonus \in IncomeBonuses : CollectPassiveIncome(u, skin_bonus)
  \/ \E d \in IncomeDelays : Tick(d)

SpecIncome == InitIncome /\ [][NextIncome]_vars

\* The last request was a collection by a user whose row existed.
LastCollect == last.op = "passive" /\ last.uid \in DOMAIN last.pre

\* The interval the collection gate applies for a bonus descriptor.
EffectiveInterval(skin_bonus) ==
  IF skin_bonus.type = "interval" THEN skin_bonus.value
  ELSE IF skin_bonus.type = "both" THEN skin_bonus.interval
  ELSE 10

\* The gate of the last collection: no timestamp, or the interval elapsed.
GateSatisfied ==
  \/ last.pre[last.uid].last_passive_income = NoTime
  \/ last.at - last.pre[last.uid].last_passive_income
       >= EffectiveInterval(last.arg)

\* C18: a collection pays only if last_passive_income is unset or the
\* effective interval (10 minutes, or the interval of an interval/both bonus)
\* has elapsed; otherwise it answers income 0 without error and leaves coins
\* and last_passive_income, and the rest of the table, as they were.
C18_CollectionGate ==
  LastCollect =>
    /\ last.status = "ok"
    /\ ~GateSatisfied =>
         /\ last.ret.income = 0
         /\ last.ret.coins = last.pre[last.uid].coins
         /\ db = last.pre
    /\ (last.ret.income # 0 \/ db # last.pre) => GateSatisfied

\* A collection without bonus nine minutes after the last one paid nothing.
C18_Witness ==
  /\ LastCollect
  /\ last.arg = NoBonus
  /\ last.at - last.pre[last.uid].last_passive_income = 9
  /\ last.ret.income = 0
  /\ db = last.pre

\* (hourly rate // 6) * max(1, elapsed minutes // 10) * multiplier, floored;
\* the multiplier of the descriptor is in units of 1/Q.
ExpectedIncome ==
  LET pre == last.pre[last.uid]
      elapsed == IF pre.last_passive_income = NoTime THEN 10
                 ELSE last.at - pre.last_passive_income
      cycles == IF elapsed \div 10 > 1 THEN elapsed \div 10 ELSE 1
      multiplier == IF last.arg.type = "multiplier" THEN last.arg.value
                    ELSE IF last.arg.type = "both" THEN last.arg.multiplier
                    ELSE Q
  IN  ((pre.profit_per_hour \div 6) * cycles * multiplier) \div Q

C20_FirstCollectionPaysOneCycle ==
  (/\ LastCollect
   /\ last.arg = NoBonus
   /\ \E referrer_id \in {NoReferrer} \cup Users :
        last.pre[last.uid] =
          NewUser(last.uid, referrer_id, last.pre[last.uid].last_passive_income))
  => /\ last.ret.income = 16
     /\ db[last.uid].coins = 16

\* The last request was an energy recovery by a user whose row existed.
LastRecover == last.op = "recover" /\ last.uid \in DOMAIN last.pre

AccountUsers == {1, 2, 3}

AccountSeedRows == {SeedRow(100000, <<0, 0, 0>>, 1000 * Q - 3 * Q)}

InitAccounts ==
  /\ \E row \in AccountSeedRows : db = (1 :> row)
  /\ now = 0
  /\ last = NoCall @@ [pre |-> db]
  /\ steps = 0
  /\ procs = [p \in Procs |-> IdleProc]
  /\ db0 = db
  /\ GuardInit
  /\ user_tasks = <<>>

GetUser(u) == ServePlan("get_user", u, NoRet, get_user_data(db, u))

GetReferralStats(u) ==
  ServePlan("referral_data", u, NoRet, get_referral_data(db, u))

NextAccounts ==
  \/ \E u \in AccountUsers, referrer_id \in {NoReferrer} \cup AccountUsers :
       Register(u, referrer_id)
  \/ \E u \in AccountUsers : GetUser(u)
  \/ \E u \in AccountUsers : GetReferralStats(u)
  \/ \E u \in AccountUsers : Tap(u, 1, 1)
  \/ \E u \in AccountUsers : Upgrade(u, "multitap")
  \/ \E u \in AccountUsers : RecoverEnergy(u)
  \/ \E u \in AccountUsers : CollectPassiveIncome(u, NoBonus)
  \/ \E u \in AccountUsers : ActivateBoost(u)
  \/ \E u \in AccountUsers : GetBoostStatus(u)
  \/ Tick(10)

SpecAccounts == InitAccounts /\ [][NextAccounts]_vars

\* The last request was a registration that created its user's row.
Created == last.op = "register" /\ last.uid \notin DOMAIN last.pre

C25_ReferrerWriteOnce ==
  /\ \A u \in DOMAIN last.pre : db[u].referrer_id = last.pre[u].referrer_id
  /\ Created => db[last.uid].referrer_id = last.arg

\* A second registration of user 2, naming referrer 3 instead of 1, was
\* answered "exists" and left referrer_id 1.
C25_Witness ==
  /\ last.op = "register"
  /\ last.uid = 2
  /\ last.uid \in DOMAIN last.pre
  /\ last.arg = 3
  /\ last.status = "exists"
  /\ last.pre[2].referrer_id = 1
  /\ db[2].referrer_id = 1

\* C30: every request other than Register that names an unregistered user
\* id fails with NotFound and leaves the stored rows as they were; only
\* Register adds a row.
C30_OnlyRegisterCreatesRows ==
  /\ (last.op \notin {"none", "register"} /\ last.uid \notin DOMAIN last.pre) =>
       /\ last.status = "NotFound"
       /\ db = last.pre
  /\ DOMAIN db # DOMAIN last.pre => last.op = "register"

\* Referral statistics of the unregistered user 3 were refused after user 2
\* had registered.
C30_Witness ==
  /\ last.op = "referral_data"
  /\ last.uid = 3
  /\ DOMAIN db = {1, 2}
  /\ last.status = "NotFound"
  /\ db = last.pre

(* ----------------------- overlapping registrations -------------------- *)
(* register_user awaits get_user, then add_user, which awaits its own      *)
(* select, the commit of the insert and, for a referrer, add_referral_bonus *)
(* (a select of the referrer's row and the commit of the three changed      *)
(* columns, in a session of its own).  Other requests run between these.    *)

\* The user ids overlapping registrations create, and the referrers they name.
Invitees == {2, 3}

ReferrerIds == {NoReferrer, 1, 3}

InitReferral ==
  /\ \E row \in AccountSeedRows : db = (1 :> row)
  /\ now = 0
  /\ last = NoCall @@ [pre |-> db]
  /\ steps = 0
  /\ procs = [p \in Procs |-> IdleProc]
  /\ db0 = db
  /\ GuardInit
  /\ user_tasks = <<>>

\* The status register_user reports after create_user returned.
CreatedStatus(referrer_id) ==
  IF referrer_id # NoReferrer THEN "created_with_referral" ELSE "created"

\* existing = await get_user(request.user_id)
RegisterCall(p, u, referrer_id) ==
  /\ procs[p].pc = "idle"
  /\ procs' = [procs EXCEPT ![p] =
       [pc |-> IF Exists(db, u) THEN "done" ELSE "select",
        op |-> "register", uid |-> u, arg |-> referrer_id,
        status |-> IF Exists(db, u) THEN "exists" ELSE "pending",
        writes |-> <<>>, ret |-> NoRet]]
  /\ UNCHANGED <<db, now, last, steps, db0>>
  /\ UNCHANGED <<guard_vars, user_tasks>>

\* add_user's select: an existing row is returned as it is, without a bonus.
RegisterSelect(p) ==
  /\ procs[p].pc = "select"
  /\ procs' = [procs EXCEPT ![p] =
       IF Exists(db, procs[p].uid)
       THEN [@ EXCEPT !.pc = "done", !.status = CreatedStatus(procs[p].arg)]
       ELSE [@ EXCEPT !.pc = "insert"]]
  /\ UNCHANGED <<db, now, last, steps, db0>>
  /\ UNCHANGED <<guard_vars, user_tasks>>

InsertConflictIgnored(d, user_id) == FALSE

\* user_id is a unique column: the commit of a second insert of the id fails.
InsertConflict(d, user_id) == Exists(d, user_id)

\* session.add(new_user); await session.commit()
RegisterInsert(p) ==
  /\ procs[p].pc = "insert"
  /\ IF InsertConflict(db, procs[p].uid)
     THEN /\ procs' = [procs EXCEPT ![p].pc = "done",
                                    ![p].status = "InternalError"]
          /\ UNCHANGED db
     ELSE /\ db' = InsertUser(db, procs[p].uid, procs[p].arg, now)
          /\ procs' = [procs EXCEPT
               ![p].pc = IF procs[p].arg # NoReferrer
                         THEN "bonus_select" ELSE "done",
               ![p].status = CreatedStatus(procs[p].arg)]
  /\ UNCHANGED <<now, last, steps, db0>>
  /\ UNCHANGED <<guard_vars, user_tasks>>

\* add_referral_bonus: the referrer's row is loaded, or found missing.
BonusSelect(p) ==
  /\ procs[p].pc = "bonus_select"
  /\ procs' = [procs EXCEPT ![p] =
       IF Exists(db, procs[p].arg)
       THEN [@ EXCEPT !.pc = "bonus_commit",
                      !.ret = [coins |-> db[procs[p].arg].coins,
                               referral_count |-> db[procs[p].arg].referral_count,
                               referral_earnings |->
                                 db[procs[p].arg].referral_earnings]]
       ELSE [@ EXCEPT !.pc = "done"]]
  /\ UNCHANGED <<db, now, last, steps, db0>>
  /\ UNCHANGED <<guard_vars, user_tasks>>

\* referrer.coins += BONUS_AMOUNT etc. on the loaded values, then commit.
BonusCommit(p) ==
  /\ procs[p].pc = "bonus_commit"
  /\ db' = [db EXCEPT
       ![procs[p].arg].coins = procs[p].ret.coins + BONUS_AMOUNT,
       ![procs[p].arg].referral_count = procs[p].ret.referral_count + 1,
       ![procs[p].arg].referral_earnings =
          procs[p].ret.referral_earnings + BONUS_AMOUNT]
  /\ procs' = [procs EXCEPT ![p].pc = "done"]
  /\ UNCHANGED <<now, last, steps, db0>>
  /\ UNCHANGED <<guard_vars, user_tasks>>

CallGetUser(p, u) == Call(p, "get_user", u, NoRet, get_user_data(db, u))

NextReferral ==
  \/ \E p \in Procs, u \in Invitees, referrer_id \in ReferrerIds :
       RegisterCall(p, u, referrer_id)
  \/ \E p \in Procs : RegisterSelect(p)
  \/ \E p \in Procs : RegisterInsert(p)
  \/ \E p \in Procs : BonusSelect(p)
  \/ \E p \in Procs : BonusCommit(p)
  \/ \E p \in Procs, u \in Invitees : CallGetUser(p, u)

SpecReferral == InitReferral /\ [][NextReferral]_vars

\* The rows created since the start that name referrer r.
InviteesOf(r) ==
  {i \in DOMAIN db : i \notin DOMAIN db0 /\ db[i].referrer_id = r}

\* A referral column of user r at the start (0 for a row created since).
Initially(r, column) == IF r \in DOMAIN db0 THEN db0[r][column] ELSE 0

\* Every request has returned.
AllDone == \A p \in Procs : procs[p].pc = "done"

\* C21: the referral bonus is credited at most once per invitee: whatever
\* registrations and reads of an invitee follow or overlap its creation, the
\* referrer's coins, referral_count and referral_earnings never exceed one
\* bonus per created invitee.
C21_BonusAtMostOncePerInvitee ==
  \A r \in DOMAIN db :
    /\ db[r].referral_count
         <= Initially(r, "referral_count") + Cardinality(InviteesOf(r))
    /\ db[r].referral_earnings
         <= Initially(r, "referral_earnings") + 1000 * Cardinality(InviteesOf(r))
    /\ db[r].coins
         <= Initially(r, "coins") + 1000 * Cardinality(InviteesOf(r))

\* Two overlapping registrations of invitee 2 with referrer 1 and a read of
\* user 2 have returned; one insert was refused and referrer 1 holds one bonus.
C21_Witness ==
  /\ AllDone
  /\ \E p, q, r \in Procs :
       /\ procs[p].op = "register" /\ procs[p].uid = 2 /\ procs[p].arg = 1
       /\ procs[p].status = "created_with_referral"
       /\ procs[q].op = "register" /\ procs[q].uid = 2 /\ procs[q].arg = 1
       /\ procs[q].status = "InternalError"
       /\ procs[r].op = "get_user" /\ procs[r].uid = 2
  /\ db[1].referral_count = db0[1].referral_count + 1
  /\ db[1].referral_earnings = db0[1].referral_earnings + 1000
  /\ db[1].coins = db0[1].coins + 1000

\* C22: once the registrations of two new invitees naming the same existing
\* referrer have both returned, the referrer's referral_count has grown by 2
\* and its referral_earnings and coins by 2 * 1000, in every interleaving.
C22_TwoInviteesBothCredited ==
  (AllDone /\ InviteesOf(1) = {2, 3}) =>
    /\ db[1].referral_count = db0[1].referral_count + 2
    /\ db[1].referral_earnings = db0[1].referral_earnings + 2000
    /\ db[1].coins = db0[1].coins + 2000

\* C23: the credit is part of the step that creates the invitee's row: in no
\* state does an invitee's row name a referrer registered from the start
\* whose referral_count, referral_earnings and coins lack that bonus.
C23_CreditAtomicWithCreation ==
  \A r \in DOMAIN db0 :
    /\ db[r].referral_count
         >= db0[r].referral_count + Cardinality(InviteesOf(r))
    /\ db[r].referral_earnings
         >= db0[r].referral_earnings + 1000 * Cardinality(InviteesOf(r))
    /\ db[r].coins >= db0[r].coins + 1000 * Cardinality(InviteesOf(r))

(* ---------------------------- request guards -------------------------- *)
(* check_click_spam and rate_limit_middleware keep, per key, the list of   *)
(* time.time() values of the requests they let through.                    *)

\* The list a store holds under a key ([] for a key it does not hold yet).
Stored(store, key) == IF key \in DOMAIN store THEN store[key] ELSE <<>>

\* store[key] = list
Store(store, key, list) ==
  [k \in DOMAIN store \cup {key} |-> IF k = key THEN list ELSE store[k]]

\* [t for t in list if now - t < window]; window in seconds.
Recent(list, t, window) ==
  SelectSeq(list, LAMBDA x : t - x < window * TicksPerSecond)

ClickLimitExceeded(list) == Len(list) > MAX_CLICKS_PER_SECOND

\* len(_click_spam_store[key]) >= MAX_CLICKS_PER_SECOND
ClickLimitReached(list) == Len(list) >= MAX_CLICKS_PER_SECOND

\* The outcome of check_click_spam and the store it leaves.
check_click_spam(store, user_id, t) ==
  LET key == <<"click", user_id>>
      list == Recent(Stored(store, key), t, 1)
  IN  IF ClickLimitReached(list)
      THEN [ok |-> FALSE, store |-> Store(store, key, list)]
      ELSE [ok |-> TRUE, store |-> Store(store, key, Append(list, t))]

\* One more request let through under this key at this instant.
Count(key, t) ==
  [k \in DOMAIN accepted \cup {<<key, t>>} |->
     IF k = <<key, t>> THEN (IF k \in DOMAIN accepted THEN accepted[k] ELSE 0) + 1
     ELSE accepted[k]]

\* POST /api/click: the anti-spam check, then the tap itself.
GuardedTap(u) ==
  LET guard == check_click_spam(click_spam_store, u, clock)
      plan == IF guard.ok THEN process_click(db, u, now, 1, 1)
              ELSE Reject("TooManyRequests")
  IN  /\ click_spam_store' = guard.store
      /\ accepted' = IF guard.ok THEN Count(<<"click", u>>, clock) ELSE accepted
      /\ db' = ApplyWrites(db, u, plan.writes)
      /\ last' = [op |-> "click", uid |-> u,
                  arg |-> [clicks |-> 1, energy_cost |-> 1],
                  status |-> plan.status, at |-> now, ret |-> plan.ret,
                  pre |-> db, clock |-> clock]
      /\ UNCHANGED <<now, steps, procs, db0, rate_limit_store, clock, user_tasks>>

\* time.time() advances by d ticks, up to the instant `until`.
ClockTick(d, until) ==
  /\ clock + d <= until
  /\ clock' = clock + d
  /\ UNCHANGED <<db, now, last, steps, procs, db0,
                 click_spam_store, rate_limit_store, accepted, user_tasks>>

\* A freshly registered user taps for one second.
InitClickGuard ==
  /\ db = (1 :> NewUser(1, NoReferrer, 0))
  /\ now = 0
  /\ last = NoCall @@ [pre |-> db]
  /\ steps = 0
  /\ procs = [p \in Procs |-> IdleProc]
  /\ db0 = db
  /\ GuardInit
  /\ user_tasks = <<>>

NextClickGuard ==
  \/ GuardedTap(1)
  \/ ClockTick(1, 1 * TicksPerSecond)

SpecClickGuard == InitClickGuard /\ [][NextClickGuard]_vars

\* The total of the counts of requests let through, over a set of entries.
RECURSIVE SumAccepted(_)
SumAccepted(S) ==
  IF S = {} THEN 0
  ELSE LET k == CHOOSE k \in S : TRUE
       IN  accepted[k] + SumAccepted(S \ {k})

\* The requests a guard let through under a key in the trailing window
\* (seconds) that ends at instant t.
AcceptedWithin(key, window, t) ==
  SumAccepted({k \in DOMAIN accepted :
                 k[1] = key /\ k[2] <= t /\ t - k[2] < window * TicksPerSecond})

\* C26: the tap guard lets through at most 100 taps of one user in any
\* trailing 1-second window; a tap that arrives when 100 taps it let through
\* lie within the last second is rejected with TooManyRequests and leaves
\* every row as it was, and no other tap is rejected so.
C26_TapGuardLimit ==
  /\ AcceptedWithin(<<"click", 1>>, 1, clock) <= 100
  /\ last.op = "click" =>
       /\ last.status = "TooManyRequests" =>
            /\ db = last.pre
            /\ AcceptedWithin(<<"click", 1>>, 1, last.clock) = 100
       /\ last.status # "TooManyRequests" =>
            /\ last.status = "ok"
            /\ db[1].coins = last.pre[1].coins + 1

\* The 101st tap within one second was rejected while the row still had
\* energy, and the row stayed.
C26_Witness ==
  /\ last.op = "click"
  /\ last.status = "TooManyRequests"
  /\ last.clock = 1
  /\ AcceptedWithin(<<"click", 1>>, 1, last.clock) = 100
  /\ db[1].energy = 900 * Q
  /\ db[1].coins = 100
  /\ db = last.pre

RateLimitExceeded(list) == Len(list) > RATE_LIMIT

\* len(_rate_limit_store[key]) >= 60
RateLimitReached(list) == Len(list) >= RATE_LIMIT

\* The paths the middleware lets through without counting.
UncountedPaths == {"/health", "/"}

\* rate_limit_middleware up to call_next: whether the request goes on to
\* its handler, and the store it leaves.  The key is client address and URL
\* path.
rate_limit_middleware(store, client_ip, path, t) ==
  IF path \in UncountedPaths THEN [pass |-> TRUE, store |-> store]
  ELSE
    LET key == <<client_ip, path>>
        list == Recent(Stored(store, key), t, RATE_WINDOW_SECONDS)
    IN  IF RateLimitReached(list)
        THEN [pass |-> FALSE, store |-> Store(store, key, list)]
        ELSE [pass |-> TRUE, store |-> Store(store, key, Append(list, t))]

\* The user id a URL path carries (0 for a path without one).
PathUser(path) ==
  CASE path = "/api/user/1" -> 1
    [] path = "/api/user/2" -> 2
    [] OTHER -> 0

\* The route a URL path belongs to.
Endpoint(path) ==
  IF PathUser(path) # 0 THEN "/api/user/{user_id}" ELSE path

\* What call_next runs for a path: the health check or get_user_data.
Handler(path) ==
  IF path \in UncountedPaths
  THEN [status |-> "ok", writes |-> <<>>, ret |-> [status |-> "ok"]]
  ELSE get_user_data(db, PathUser(path))

\* One GET request of a client: the middleware, then the handler.
Request(client_ip, path) ==
  LET guard == rate_limit_middleware(rate_limit_store, client_ip, path, clock)
      plan == IF guard.pass THEN Handler(path) ELSE Reject("TooManyRequests")
  IN  /\ rate_limit_store' = guard.store
      /\ accepted' = IF guard.pass /\ path \notin UncountedPaths
                     THEN Count(<<client_ip, path>>, clock) ELSE accepted
      /\ last' = [op |-> "request", uid |-> PathUser(path),
                  arg |-> [client_ip |-> client_ip, path |-> path],
                  status |-> plan.status, at |-> now, ret |-> plan.ret,
                  pre |-> db, clock |-> clock]
      /\ UNCHANGED <<db, now, steps, procs, db0, click_spam_store, clock,
                     user_tasks>>

\* Client addresses.
Clients == {"10.0.0.1"}

\* One client calls one counted path, and the health check, for a minute;
\* the clock moves in steps of 30 seconds.
NextRate ==
  \/ \E client_ip \in Clients, path \in {"/health", "/api/user/1"} :
       Request(client_ip, path)
  \/ ClockTick(30 * TicksPerSecond, 60 * TicksPerSecond)

SpecRate == InitAccounts /\ [][NextRate]_vars

\* One client reads several users within one instant.
NextRatePaths ==
  \E client_ip \in Clients, path \in {"/api/user/1", "/api/user/2"} :
    Request(client_ip, path)

SpecRatePaths == InitAccounts /\ [][NextRatePaths]_vars

\* C27: the middleware lets through at most 60 requests per client address
\* and path in any trailing 60-second window; a request that arrives when 60
\* requests let through under its key lie within the last 60 seconds is
\* answered 429 without reaching its handler; requests to /health and / are
\* neither counted nor rejected.
C27_RateLimitPerAddressAndPath ==
  /\ \A client_ip \in Clients :
       AcceptedWithin(<<client_ip, "/api/user/1">>, 60, clock) <= 60
  /\ \A key \in DOMAIN rate_limit_store : key[2] \notin {"/health", "/"}
  /\ last.op = "request" =>
       /\ last.arg.path \in {"/health", "/"} =>
            /\ last.status = "ok"
            /\ last.ret = [status |-> "ok"]
       /\ last.status = "TooManyRequests" =>
            /\ last.ret = NoRet
            /\ AcceptedWithin(<<last.arg.client_ip, last.arg.path>>, 60,
                              last.clock) = 60
       /\ (last.arg.path \notin {"/health", "/"}
             /\ last.status # "TooManyRequests") =>
            /\ last.status = "ok"
            /\ last.ret.coins = db[1].coins
            /\ AcceptedWithin(<<last.arg.client_ip, last.arg.path>>, 60,
                              last.clock) <= 60

\* Thirty seconds in, the 61st request of the last minute was answered 429.
C27_Witness ==
  /\ last.op = "request"
  /\ last.arg.path = "/api/user/1"
  /\ last.status = "TooManyRequests"
  /\ last.clock = 30 * TicksPerSecond
  /\ AcceptedWithin(<<last.arg.client_ip, last.arg.path>>, 60, last.clock) = 60
  /\ \E k \in DOMAIN accepted : k[2] = 0 /\ accepted[k] = 25

\* The requests of a client let through on a route, whatever user id their
\* paths carry, in the trailing window (seconds) that ends at instant t.
AcceptedOnEndpoint(client_ip, endpoint, window, t) ==
  SumAccepted({k \in DOMAIN accepted :
                 /\ k[1][1] = client_ip
                 /\ Endpoint(k[1][2]) = endpoint
                 /\ k[2] <= t
                 /\ t - k[2] < window * TicksPerSecond})

\* C28: on an endpoint that carries the user id in its path, one client
\* address gets at most 60 requests let through per 60 seconds in total,
\* however many user ids it names.
C28_RateLimitIgnoresUserId ==
  \A client_ip \in Clients :
    AcceptedOnEndpoint(client_ip, "/api/user/{user_id}", 60, clock) <= 60

(* --------------------- whole-number energy ceiling -------------------- *)

\* C32: the max_energy written by a successful energy upgrade is a whole
\* number at every level the price table allows (values are in units of 1/Q).
C32_MaxEnergyWhole ==
  ( /\ LastUpgradeOf("ok")
    /\ last.arg = "energy"
    /\ last.uid \in DOMAIN db )
  => db[last.uid].max_energy % Q = 0

\* C34: a successful energy upgrade never lowers max_energy: the value stored
\* after it is at least the value stored before it.
C34_EnergyUpgradeNeverLowersMax ==
  ( /\ LastUpgradeOf("ok")
    /\ last.arg = "energy"
    /\ last.uid \in DOMAIN db )
  => db[last.uid].max_energy >= last.pre[last.uid].max_energy

(* ---------------------- hostile bonus descriptors --------------------- *)

\* C38: a collection never decreases coins, whatever bonus descriptor the
\* caller supplies; when the computed income is <= 0 it answers income 0 and
\* leaves coins, last_passive_income and the rest of the table unchanged.
C38_CollectNeverDebits ==
  LastCollect =>
    /\ db[last.uid].coins >= last.pre[last.uid].coins
    /\ ExpectedIncome <= 0 =>
         /\ last.status = "ok"
         /\ last.ret.income = 0
         /\ last.ret.coins = last.pre[last.uid].coins
         /\ db = last.pre

\* A collection past the gate with a negative multiplier computed a negative
\* income and paid nothing.
C38_Witness ==
  /\ LastCollect
  /\ GateSatisfied
  /\ last.arg.type \in {"multiplier", "both"}
  /\ ExpectedIncome < 0
  /\ last.ret.income = 0
  /\ db = last.pre

(* ----------------------- referral status lookup ----------------------- *)
(* Registrations and check-referral requests, one at a time.               *)

CheckReferral(u) ==
  ServePlan("check_referral", u, NoRet, check_referral(db, u))

NextCheckReferral ==
  \/ \E u \in AccountUsers, referrer_id \in {NoReferrer} \cup AccountUsers :
       Register(u, referrer_id)
  \/ \E u \in AccountUsers : CheckReferral(u)

SpecCheckReferral == InitAccounts /\ [][NextCheckReferral]_vars

\* The referrer_id column of a user's row; none for a user without a row.
StoredReferrer(d, user_id) ==
  IF user_id \in DOMAIN d THEN d[user_id].referrer_id ELSE NoReferrer

\* C37: check_referral reports has_referrer = true, with the stored
\* referrer_id, exactly when the user's row carries a referrer_id, and
\* has_referrer = false for rows without one and for unknown users.
C37_CheckReferralReportsStoredReferrer ==
  last.op = "check_referral" =>
    /\ last.ret.has_referrer = (StoredReferrer(db, last.uid) # NoReferrer)
    /\ last.ret.has_referrer => last.ret.referrer_id = StoredReferrer(db, last.uid)

(* ---------------------------- self-referral --------------------------- *)

\* C36: a registration never credits the referral bonus to the user being
\* created: Register(u, u) for a new u leaves u's coins, referral_count and
\* referral_earnings at 0.
C36_NoSelfReferralCredit ==
  (Created /\ last.arg = last.uid) =>
    /\ db[last.uid].coins = 0
    /\ db[last.uid].referral_count = 0
    /\ db[last.uid].referral_earnings = 0

(* ------------------- activation racing an expiry sweep ---------------- *)
(* User 1's row holds a mega_boost entry that ran out; taps, status reads  *)
(* and activations overlap, each committing its update_user calls one by   *)
(* one.                                                                    *)

\* The minute at which the overlapping requests arrive.
BoostRaceNow == 10

\* An entry activated at minute 0, expired since minute 2.
ExpiredEntry ==
  [name |-> "mega_boost", active |-> TRUE, expires_at |-> BoostExpiry(0)]

BoostRaceSeedRows ==
  { [SeedRow(100000, <<0, 0, 0>>, energy) EXCEPT
       !.extra_data = [active_boosts |-> {ExpiredEntry}]] :
      energy \in {1000 * Q - 3 * Q, 0} }

InitBoostRace ==
  /\ \E row \in BoostRaceSeedRows : db = (1 :> row)
  /\ now = BoostRaceNow
  /\ last = NoCall @@ [pre |-> db]
  /\ steps = 0
  /\ procs = [p \in Procs |-> IdleProc]
  /\ db0 = db
  /\ GuardInit
  /\ user_tasks = <<>>

CallActivate(p, u) ==
  Call(p, "activate", u, NoRet, activate_mega_boost(db, u, now))

CallStatus(p, u) ==
  Call(p, "status", u, NoRet, get_mega_boost_status(db, u, now))

NextBoostRace ==
  \/ \E p \in Procs : CallTap(p, 1, [clicks |-> 1, energy_cost |-> 1])
  \/ \E p \in Procs : CallActivate(p, 1)
  \/ \E p \in Procs : CallStatus(p, 1)
  \/ \E p \in Procs : Write(p)

SpecBoostRace == InitBoostRace /\ [][NextBoostRace]_vars

\* Every request that was started has completed.
NoneInFlight == \A p \in Procs : procs[p].pc \in {"idle", "done"}

\* C35: an activation that returned success with expiry E is not erased
\* before E by a sweep started on the older, expired entry: once all
\* overlapping requests have completed, the row carries the mega_boost entry
\* with expires_at = E, so that taps up to E are boosted.
C35_ActivationSurvivesSweep ==
  \A p \in Procs :
    ( /\ NoneInFlight
      /\ procs[p].op = "activate"
      /\ procs[p].status = "ok"
      /\ procs[p].ret.success )
    => /\ \E b \in BoostSlot(db[1]) : b.expires_at = procs[p].ret.expires_at
       /\ LiveAt(db[1], now)

(* --------------------------- one-time tasks --------------------------- *)
(* complete_task, step by step: the user snapshot, the list of completed   *)
(* tasks, add_completed_task's select and its insert, then update_user.    *)
(* link_click, which has a timestamp guard of its own, is not among the    *)
(* task ids sent here.                                                     *)

DAILY_BONUS_REWARD == 25000

INVITE_REWARD == 20000

INVITE_FRIENDS_NEEDED == 5

\* task_id strings the clients send.
TaskIds == {"daily_bonus", "energy_refill"}

\* get_completed_tasks: the task ids of the user's rows in user_tasks.
get_completed_tasks(tasks, user_id) ==
  {tasks[i].task_id : i \in {j \in DOMAIN tasks : tasks[j].user_id = user_id}}

\* The rows add_completed_task's select matches.
TaskRows(tasks, user_id, task_id) ==
  {i \in DOMAIN tasks : tasks[i].user_id = user_id /\ tasks[i].task_id = task_id}

\* The updates dict complete_task builds from its snapshot of the user.
TaskUpdates(user, task_id) ==
  CASE task_id = "daily_bonus" ->
         <<[coins |-> user.coins + DAILY_BONUS_REWARD]>>
    [] task_id = "invite_5_friends" ->
         <<[coins |-> user.coins + INVITE_REWARD]>>
    [] OTHER -> <<>>

\* user = await get_user(request.user_id)
TaskCall(p, u, task_id) ==
  /\ procs[p].pc = "idle"
  /\ procs' = [procs EXCEPT ![p] =
       IF ~Exists(db, u)
       THEN [pc |-> "done", op |-> "task", uid |-> u, arg |-> task_id,
             status |-> "NotFound", writes |-> <<>>, ret |-> NoRet]
       ELSE [pc |-> "completed", op |-> "task", uid |-> u, arg |-> task_id,
             status |-> "pending",
             writes |-> TaskUpdates(get_user(db, u), task_id),
             ret |-> [coins |-> get_user(db, u).coins,
                      referral_count |-> get_user(db, u).referral_count]]]
  /\ UNCHANGED <<db, now, last, steps, db0>>
  /\ UNCHANGED <<guard_vars, user_tasks>>

TaskAlreadyCompletedNever(completed, task_id) == FALSE

\* if task_id in completed
TaskAlreadyCompleted(completed, task_id) == task_id \in completed

\* completed = await get_completed_tasks(...) and the branch on task_id.
TaskCompleted(p) ==
  /\ procs[p].pc = "completed"
  /\ procs' = [procs EXCEPT ![p] =
       IF TaskAlreadyCompleted(get_completed_tasks(user_tasks, procs[p].uid),
                               procs[p].arg)
       THEN [@ EXCEPT !.pc = "done", !.status = "AlreadyCompleted",
                      !.writes = <<>>]
       ELSE IF procs[p].arg = "invite_5_friends"
               /\ procs[p].ret.referral_count < INVITE_FRIENDS_NEEDED
       THEN [@ EXCEPT !.pc = "done", !.status = "NotEnoughFriends",
                      !.writes = <<>>]
       ELSE IF procs[p].arg \in {"daily_bonus", "energy_refill", "invite_5_friends"}
       THEN [@ EXCEPT !.pc = "task_select"]
       ELSE [@ EXCEPT !.pc = "done", !.status = "ok"]]
  /\ UNCHANGED <<db, now, last, steps, db0>>
  /\ UNCHANGED <<guard_vars, user_tasks>>

\* add_completed_task's select: scalar_one_or_none() raises on two rows
\* (the handler answers 500); one row makes it return False, which
\* complete_task does not look at.
TaskSelect(p) ==
  LET n == Cardinality(TaskRows(user_tasks, procs[p].uid, procs[p].arg))
  IN  /\ procs[p].pc = "task_select"
      /\ procs' = [procs EXCEPT ![p] =
           IF n >= 2
           THEN [@ EXCEPT !.pc = "done", !.status = "InternalError",
                          !.writes = <<>>]
           ELSE IF n = 1
           THEN [@ EXCEPT !.pc = IF procs[p].writes = <<>> THEN "done" ELSE "write",
                          !.status = "ok"]
           ELSE [@ EXCEPT !.pc = "task_insert"]]
      /\ UNCHANGED <<db, now, last, steps, db0>>
      /\ UNCHANGED <<guard_vars, user_tasks>>

\* session.add(new_task); await session.commit()
TaskInsert(p) ==
  /\ procs[p].pc = "task_insert"
  /\ user_tasks' = Append(user_tasks,
                          [user_id |-> procs[p].uid, task_id |-> procs[p].arg])
  /\ procs' = [procs EXCEPT
       ![p].pc = IF procs[p].writes = <<>> THEN "done" ELSE "write",
       ![p].status = "ok"]
  /\ UNCHANGED <<db, now, last, steps, db0>>
  /\ UNCHANGED guard_vars

NextTasks ==
  \/ \E p \in Procs, task_id \in TaskIds : TaskCall(p, 1, task_id)
  \/ \E p \in Procs : TaskCompleted(p)
  \/ \E p \in Procs : TaskSelect(p)
  \/ \E p \in Procs : TaskInsert(p)
  \/ \E p \in Procs : Write(p)

SpecTasks == InitRace /\ [][NextTasks]_vars

\* The process reads the list of completed tasks in this step.
ChecksCompleted(p) ==
  procs[p].pc = "completed" /\ procs'[p].pc # "completed"

\* C39: daily_bonus pays at most once per user: a request that finds the
\* task completed is rejected as already completed and writes nothing, and
\* in every interleaving of overlapping daily_bonus requests of one user the
\* user's coins grow by at most 25000 in total.
C39_DailyBonusPaysOnce ==
  /\ [](db[1].coins <= db0[1].coins + DAILY_BONUS_REWARD)
  /\ [][\A p \in Procs :
          ( /\ ChecksCompleted(p)
            /\ procs[p].arg = "daily_bonus"
            /\ TaskRows(user_tasks, procs[p].uid, "daily_bonus") # {} )
          => /\ procs'[p].pc = "done"
             /\ procs'[p].status = "AlreadyCompleted"
             /\ procs'[p].writes = <<>>
             /\ db' = db]_vars

\* Two overlapping daily_bonus requests both answered success, and a third,
\* later one was rejected; the coins grew by 25000.
C39_Witness ==
  \E p, q, r \in Procs :
    /\ p # q /\ q # r /\ p # r
    /\ \A x \in {p, q} : /\ procs[x].pc = "done" /\ procs[x].arg = "daily_bonus"
                         /\ procs[x].status = "ok"
    /\ procs[r].pc = "done" /\ procs[r].arg = "daily_bonus"
    /\ procs[r].status = "AlreadyCompleted"
    /\ db[1].coins = db0[1].coins + DAILY_BONUS_REWARD

(* ------------------- every writer of coins, overlapping --------------- *)
(* Taps, upgrades, collections, daily_bonus completions and the referral   *)
(* credits of two invitees, all on user 1's balance.                       *)

\* Rows with just enough coins for one upgrade, ten minutes after the last
\* collection.
CoinSeedRows ==
  { SeedRow(coins, <<0, 0, 0>>, 1000 * Q - 3 * Q) : coins \in {100, 250} }

InitCoins ==
  /\ \E row \in CoinSeedRows : db = (1 :> row)
  /\ now = BASE_INTERVAL
  /\ last = NoCall @@ [pre |-> db]
  /\ steps = 0
  /\ procs = [p \in Procs |-> IdleProc]
  /\ db0 = db
  /\ GuardInit
  /\ user_tasks = <<>>

CallCollect(p, u, skin_bonus) ==
  Call(p, "passive", u, skin_bonus, passive_income(db, u, now, skin_bonus))

NextCoins ==
  \/ \E p \in Procs : CallTap(p, 1, [clicks |-> 1, energy_cost |-> 1])
  \/ \E p \in Procs, boost_type \in ValidTracks : CallUpgrade(p, 1, boost_type)
  \/ \E p \in Procs, skin_bonus \in Bonuses : CallCollect(p, 1, skin_bonus)
  \/ \E p \in Procs : TaskCall(p, 1, "daily_bonus")
  \/ \E p \in Procs : TaskCompleted(p)
  \/ \E p \in Procs : TaskSelect(p)
  \/ \E p \in Procs : TaskInsert(p)
  \/ \E p \in Procs, u \in Invitees : RegisterCall(p, u, 1)
  \/ \E p \in Procs : RegisterSelect(p)
  \/ \E p \in Procs : RegisterInsert(p)
  \/ \E p \in Procs : BonusSelect(p)
  \/ \E p \in Procs : BonusCommit(p)
  \/ \E p \in Procs : Write(p)
  \/ \E p \in Procs : Reread(p)

SpecCoins == InitCoins /\ [][NextCoins]_vars

\* C33: coins >= 0 in every stored state under every interleaving of
\* overlapping Tap, Upgrade, CollectPassiveIncome, task-completion and
\* referral-credit steps on the same user.
C33_CoinsNeverNegativeInRaces ==
  \A u \in DOMAIN db : db[u].coins >= 0

\* A daily_bonus completion and an upgrade overlapped; the upgrade's write
\* came last and the bonus was lost, leaving initial - price coins.
C33_Witness ==
  \E p, q \in Procs :
    /\ procs[p].pc = "done" /\ procs[p].op = "task" /\ procs[p].status = "ok"
    /\ procs[q].pc = "done" /\ procs[q].op = "upgrade" /\ procs[q].status = "ok"
    /\ \A r \in Procs \ {p, q} : procs[r].pc = "idle"
    /\ db[1].coins = db0[1].coins - UPGRADE_PRICES["multitap"][1]
    /\ db[1].coins >= 0

(* ------------------------ two registered users ------------------------ *)
(* Requests for users 1 and 2 overlap; user 2 was invited by user 1, and   *)
(* user 3 registers naming either of them.                                 *)

PairSeedRows ==
  { [u \in {1, 2} |->
       IF u = 1 THEN SeedRow(100000, <<0, 0, 0>>, 1000 * Q - 3 * Q)
       ELSE [SeedRow(250, <<1, 0, 0>>, energy) EXCEPT
               !.user_id = 2, !.referrer_id = 1]] :
      energy \in {1000 * Q, 0} }

InitPair ==
  /\ db \in PairSeedRows
  /\ now = BASE_INTERVAL
  /\ last = NoCall @@ [pre |-> db]
  /\ steps = 0
  /\ procs = [p \in Procs |-> IdleProc]
  /\ db0 = db
  /\ GuardInit
  /\ user_tasks = <<>>

NextPair ==
  \/ \E p \in Procs, u \in Users :
       CallTap(p, u, [clicks |-> 1, energy_cost |-> 1])
  \/ \E p \in Procs, u \in Users : CallUpgrade(p, u, "multitap")
  \/ \E p \in Procs, u \in Users : CallRecover(p, u)
  \/ \E p \in Procs, u \in Users : CallCollect(p, u, NoBonus)
  \/ \E p \in Procs, u \in Users : CallActivate(p, u)
  \/ \E p \in Procs, u \in Users : CallStatus(p, u)
  \/ \E p \in Procs, referrer_id \in Users : RegisterCall(p, 3, referrer_id)
  \/ \E p \in Procs : RegisterSelect(p)
  \/ \E p \in Procs : RegisterInsert(p)
  \/ \E p \in Procs : BonusSelect(p)
  \/ \E p \in Procs : BonusCommit(p)
  \/ \E p \in Procs : Write(p)
  \/ \E p \in Procs : Reread(p)

SpecPair == InitPair /\ [][NextPair]_vars

\* What the handler of request op decides for user u when u's row is the
\* only row it can see.
PlanAlone(op, u, arg) ==
  LET d == (u :> db0[u])
  IN  CASE op = "click" -> process_click(d, u, now, arg.clicks, arg.energy_cost)
        [] op = "upgrade"  -> process_upgrade(d, u, arg)
        [] op = "recover"  -> recover_energy(d, u)
        [] op = "passive"  -> passive_income(d, u, now, arg)
        [] op = "activate" -> activate_mega_boost(d, u, now)
        [] OTHER           -> get_mega_boost_status(d, u, now)

\* The process has run an action of a registered user, and no other process
\* has run a request of that user or a registration naming it as referrer.
OnlyRequestFor(p) ==
  /\ procs[p].pc = "done"
  /\ procs[p].op # "register"
  /\ \A q \in Procs \ {p} :
       \/ procs[q].pc = "idle"
       \/ procs[q].op # "register" /\ procs[q].uid # procs[p].uid
       \/ procs[q].op = "register" /\ procs[q].arg # procs[p].uid

\* C31: actions on different users are independent: a step of a request for
\* user A changes no field of any other user's row, and the row A ends with
\* is what A's request alone produces, whatever requests for B were
\* interleaved with it; the only write to another user's row is the
\* referral credit to the referrer named at a registration.
C31_UsersIndependent ==
  /\ [][\A p \in Procs :
          procs'[p] # procs[p] =>
            \A u \in DOMAIN db \ {IF procs[p].pc = "idle" THEN procs'[p].uid
                                  ELSE procs[p].uid} :
              \/ u \in DOMAIN db' /\ db'[u] = db[u]
              \/ /\ procs[p].op = "register"
                 /\ procs[p].pc = "bonus_commit"
                 /\ procs[p].arg = u]_vars
  /\ [](\A p \in Procs :
          OnlyRequestFor(p) =>
            db[procs[p].uid] =
              ApplyWrites((procs[p].uid :> db0[procs[p].uid]), procs[p].uid,
                          PlanAlone(procs[p].op, procs[p].uid, procs[p].arg).writes)
                [procs[p].uid])

\* A tap for user 1 completed while an upgrade and an activation for user 2
\* were written; user 1's row shows the tap alone.
C31_Witness ==
  \E p, q, r \in Procs :
    /\ procs[p].pc = "done" /\ procs[p].op = "click" /\ procs[p].uid = 1
    /\ procs[p].status = "ok"
    /\ procs[q].pc = "done" /\ procs[q].op = "upgrade" /\ procs[q].uid = 2
    /\ procs[q].status = "ok"
    /\ procs[r].pc = "done" /\ procs[r].op = "activate" /\ procs[r].uid = 2
    /\ db[2] # db0[2]
    /\ db[1] = [db0[1] EXCEPT !.coins = @ + 1, !.energy = @ - 1 * Q]

=============================================================================
